---- MODULE Spec2Model ----
(***************************************************************************)
(* Feedforward neural network of neural_network.py and layer.py.           *)
(*                                                                         *)
(* Matrices are kept by shape and by the integer value of their entries    *)
(* (np.full style matrices, as in Test/test_layer.py).  A matrix with a    *)
(* bias column (weights, learning rates, weight deltas, bias-augmented     *)
(* inputs) keeps two values: the one of its first column and the one of    *)
(* the other columns.  All samples of a data set are equal, so that every  *)
(* matrix the network computes is of one of these two forms.               *)
(***************************************************************************)
EXTENDS Integers, Sequences, FiniteSets, TLC

\* ---------------------------------------------------------------- bounds
MaxDim == 2          \* largest num_unit / num_input of a layer, batch columns
MaxLayers == 2       \* add_layer is not tried on a network of this many layers
MaxRows == 2         \* largest number of rows of a batch given to predict
MaxEpochsArg == 2    \* largest max_epochs given to the constructor
MaxBatchArg == 2     \* largest batch_size given to the constructor
MaxSamples == 2      \* largest training set given to fit
MaxFits == 2         \* fit calls per network

VARIABLES nn, pc, call, fit, fits, mem

vars == <<nn, pc, call, fit, fits, mem>>

\* ------------------------------------------------------- registries (missing
\* modules optimizer.py, loss.py, metric.py: name -> implementation tables)
optimizer_implemented == {"SGD", "batch"}
loss_functions == {"euclidean_loss"}
metric_functions == {"classification_accuracy"}

\* ---------------------------------------------------------------- matrices
Mat(r, c, v) == [shape |-> <<r, c>>, val |-> v]
\* first column b, the other columns v
WMat(r, c, b, v) == [shape |-> <<r, c>>, bias |-> b, val |-> v]
Vec(n, v) == [shape |-> <<n>>, val |-> v]
Scalar(v) == [shape |-> <<>>, val |-> v]

\* the element of a one-element set; The({ e(x) : x \in {v} }) is e of the
\* value v, computed once
The(S) == CHOOSE z \in S : TRUE

\* np.transpose
transpose(m) == [m EXCEPT !.shape = <<m.shape[2], m.shape[1]>>]

\* ActivationFunction.output on one entry
activation_output(act, v) ==
    IF act = "Relu" THEN (IF v > 0 THEN v ELSE 0) ELSE v

\* ------------------------------------------------------------------ Layer
\* np.empty(n): storage that was never written; it has no value to read
Empty(n) == [shape |-> <<n>>, uninitialized |-> TRUE]

\* Layer.__init__ on arguments that pass its checks
NewLayer(kind, weights, learning_rates, activation) ==
    [kind |-> kind,
     weights |-> weights,
     transposedWeights |-> transpose(weights),
     learning_rates |-> learning_rates,
     activation |-> activation,
     num_unit |-> weights.shape[1],
     num_input |-> weights.shape[2] - 1,
     net |-> Scalar(0),
     errors |-> Empty(weights.shape[1]),
     inputs |-> Scalar(0),
     old_delta_w |-> WMat(weights.shape[1], weights.shape[2], 0, 0),
     current_delta_w |-> WMat(weights.shape[1], weights.shape[2], 0, 0)]

get_num_unit(layer) == layer.num_unit

get_num_input(layer) == layer.num_input

\* function_signal multiplying by the weights instead of their transpose
function_signal_untransposed(layer, input_values) ==
    IF input_values.shape[2] # layer.num_input
    THEN [raised |-> TRUE, layer |-> layer, out |-> input_values]
    ELSE LET rows == input_values.shape[1]
             biased == WMat(rows, input_values.shape[2] + 1, 1, input_values.val)
             net == Mat(rows, layer.weights.shape[2],
                        layer.weights.bias
                          + input_values.shape[2] * input_values.val
                              * layer.weights.val)
         IN [raised |-> FALSE,
             layer |-> [layer EXCEPT !.inputs = biased, !.net = net],
             out |-> Mat(net.shape[1], net.shape[2],
                         activation_output(layer.activation, net.val))]

\* function_signal storing the inputs before it checks their dimension
function_signal_store_first(layer, input_values) ==
    LET rows == input_values.shape[1]
        biased == WMat(rows, input_values.shape[2] + 1, 1, input_values.val)
        net == Mat(rows, layer.transposedWeights.shape[2],
                   layer.transposedWeights.bias
                     + input_values.shape[2] * input_values.val
                         * layer.transposedWeights.val)
    IN IF input_values.shape[2] # layer.num_input
       THEN [raised |-> TRUE, layer |-> [layer EXCEPT !.inputs = biased],
             out |-> input_values]
       ELSE [raised |-> FALSE,
             layer |-> [layer EXCEPT !.inputs = biased, !.net = net],
             out |-> Mat(net.shape[1], net.shape[2],
                         activation_output(layer.activation, net.val))]

\* function_signal that also clears the delta accumulator of the layer
function_signal_clears_delta(layer, input_values) ==
    IF input_values.shape[2] # layer.num_input
    THEN [raised |-> TRUE, layer |-> layer, out |-> input_values]
    ELSE LET rows == input_values.shape[1]
             biased == WMat(rows, input_values.shape[2] + 1, 1, input_values.val)
             net == Mat(rows, layer.transposedWeights.shape[2],
                        layer.transposedWeights.bias
                          + input_values.shape[2] * input_values.val
                              * layer.transposedWeights.val)
         IN [raised |-> FALSE,
             layer |-> [layer EXCEPT !.inputs = biased, !.net = net,
                                     !.old_delta_w = biased],
             out |-> Mat(net.shape[1], net.shape[2],
                         activation_output(layer.activation, net.val))]

\* Layer.function_signal: [raised, layer, out]
function_signal(layer, input_values) ==
    IF input_values.shape[2] # layer.num_input
    THEN [raised |-> TRUE, layer |-> layer, out |-> input_values]
    ELSE LET rows == input_values.shape[1]
             biased == WMat(rows, input_values.shape[2] + 1, 1, input_values.val)
             \* matmul(inputs, transposedWeights): per entry the bias weight
             \* times one and num_input products
             net == Mat(rows, layer.transposedWeights.shape[2],
                        layer.transposedWeights.bias
                          + input_values.shape[2] * input_values.val
                              * layer.transposedWeights.val)
         IN [raised |-> FALSE,
             layer |-> [layer EXCEPT !.inputs = biased, !.net = net],
             out |-> Mat(net.shape[1], net.shape[2],
                         activation_output(layer.activation, net.val))]

\* ---------------------------------------------------------- NeuralNetwork
\* the check_* methods: [raised, value]
check_max_epochs(max_epochs) ==
    [raised |-> ~(max_epochs > 0), value |-> max_epochs]

check_optimizer(optimizer) ==
    [raised |-> ~(optimizer \in optimizer_implemented), value |-> optimizer]

check_batch_size(optimizer, batch_size) ==
    IF optimizer = "SGD" /\ batch_size = 1
    THEN [raised |-> FALSE, value |-> batch_size]
    ELSE IF batch_size > 0
         THEN [raised |-> FALSE, value |-> batch_size]
         ELSE [raised |-> TRUE, value |-> batch_size]

check_momentum(momentum_rate) ==
    [raised |-> ~(momentum_rate >= 0), value |-> momentum_rate]

check_regularization(regularization_rate) ==
    [raised |-> ~(regularization_rate >= 0), value |-> regularization_rate]

check_metric(metric) ==
    [raised |-> ~(metric \in metric_functions \/ metric = ""), value |-> metric]

check_loss(loss) ==
    [raised |-> ~(loss \in loss_functions), value |-> loss]

\* no NeuralNetwork object
NoNetwork ==
    [max_epochs |-> 0, input_dimension |-> 0, output_dimension |-> 0,
     optimizer |-> "", batch_size |-> 0, layers |-> <<>>,
     momentum_rate |-> 0, regularization_rate |-> 0, metric |-> "",
     loss |-> "", topology |-> <<>>]

\* NeuralNetwork.__init__ on the record a of its arguments: [raised, nn]; a
\* constructor that raises yields no object
NeuralNetwork(a) ==
    IF \/ check_max_epochs(a.max_epochs).raised
       \/ check_optimizer(a.optimizer).raised
       \/ check_batch_size(a.optimizer, a.batch_size).raised
       \/ check_momentum(a.momentum_rate).raised
       \/ check_regularization(a.regularization_rate).raised
       \/ check_metric(a.metric).raised
       \/ check_loss(a.loss).raised
    THEN [raised |-> TRUE, nn |-> NoNetwork]
    ELSE [raised |-> FALSE,
          nn |-> [max_epochs |-> check_max_epochs(a.max_epochs).value,
                  input_dimension |-> 0,
                  output_dimension |-> 0,
                  optimizer |-> check_optimizer(a.optimizer).value,
                  batch_size |->
                      check_batch_size(a.optimizer, a.batch_size).value,
                  layers |-> <<>>,
                  momentum_rate |-> check_momentum(a.momentum_rate).value,
                  regularization_rate |->
                      check_regularization(a.regularization_rate).value,
                  metric |-> check_metric(a.metric).value,
                  loss |-> check_loss(a.loss).value,
                  topology |-> <<>>]]

\* the arguments of NeuralNetwork(max_epochs), the others at their defaults
DefaultArgs(max_epochs) ==
    [max_epochs |-> max_epochs, optimizer |-> "SGD",
     loss |-> "euclidean_loss", metric |-> "", momentum_rate |-> 0,
     regularization_rate |-> 0, batch_size |-> 1]

\* the hyperparameters of a network
Hyper(net) ==
    [max_epochs |-> net.max_epochs, optimizer |-> net.optimizer,
     batch_size |-> net.batch_size, momentum_rate |-> net.momentum_rate,
     regularization_rate |-> net.regularization_rate, loss |-> net.loss,
     metric |-> net.metric]

\* isinstance(layer, Layer)
IsLayer(layer) == layer.kind \in {"Layer", "HiddenLayer", "OutputLayer"}

\* add_layer appending the layer before it compares the dimensions
add_layer_append_first(net, layer) ==
    IF ~IsLayer(layer)
    THEN [raised |-> TRUE, nn |-> net]
    ELSE IF Len(net.layers) # 0 /\ get_num_input(layer) # net.output_dimension
    THEN [raised |-> TRUE, nn |-> [net EXCEPT !.layers = Append(@, layer)]]
    ELSE LET seeded ==
                 IF Len(net.layers) = 0
                 THEN [net EXCEPT !.input_dimension = get_num_input(layer),
                                  !.topology = Append(@, get_num_input(layer))]
                 ELSE net
         IN [raised |-> FALSE,
             nn |-> [seeded EXCEPT
                       !.topology = Append(@, get_num_unit(layer)),
                       !.output_dimension = get_num_unit(layer),
                       !.layers = Append(@, layer)]]

\* add_layer comparing with the input dimension of the network instead of
\* its output dimension
add_layer_compare_input(net, layer) ==
    IF ~IsLayer(layer)
    THEN [raised |-> TRUE, nn |-> net]
    ELSE IF Len(net.layers) # 0 /\ get_num_input(layer) # net.input_dimension
    THEN [raised |-> TRUE, nn |-> net]
    ELSE LET seeded ==
                 IF Len(net.layers) = 0
                 THEN [net EXCEPT !.input_dimension = get_num_input(layer),
                                  !.topology = Append(@, get_num_input(layer))]
                 ELSE net
         IN [raised |-> FALSE,
             nn |-> [seeded EXCEPT
                       !.topology = Append(@, get_num_unit(layer)),
                       !.output_dimension = get_num_unit(layer),
                       !.layers = Append(@, layer)]]

\* add_layer taking the input dimension from every accepted layer
add_layer_seed_always(net, layer) ==
    IF ~IsLayer(layer)
    THEN [raised |-> TRUE, nn |-> net]
    ELSE IF Len(net.layers) # 0 /\ get_num_input(layer) # net.output_dimension
    THEN [raised |-> TRUE, nn |-> net]
    ELSE [raised |-> FALSE,
          nn |-> [net EXCEPT
                    !.input_dimension = get_num_input(layer),
                    !.topology = Append(@, get_num_unit(layer)),
                    !.output_dimension = get_num_unit(layer),
                    !.layers = Append(@, layer)]]

\* NeuralNetwork.add_layer: [raised, nn]
add_layer(net, layer) ==
    IF ~IsLayer(layer)
    THEN [raised |-> TRUE, nn |-> net]
    ELSE IF Len(net.layers) # 0 /\ get_num_input(layer) # net.output_dimension
    THEN [raised |-> TRUE, nn |-> net]
    ELSE LET seeded ==
                 IF Len(net.layers) = 0
                 THEN [net EXCEPT !.input_dimension = get_num_input(layer),
                                  !.topology = Append(@, get_num_input(layer))]
                 ELSE net
         IN [raised |-> FALSE,
             nn |-> [seeded EXCEPT
                       !.topology = Append(@, get_num_unit(layer)),
                       !.output_dimension = get_num_unit(layer),
                       !.layers = Append(@, layer)]]

\* the loop of _feedward_signal over layers[i..]: [raised, layers, out]
RECURSIVE feed(_, _, _)
feed(layers, i, input_layer) ==
    IF i > Len(layers)
    THEN [raised |-> FALSE, layers |-> layers, out |-> input_layer]
    ELSE The({ IF r.raised
               THEN [raised |-> TRUE, layers |-> layers, out |-> input_layer]
               ELSE The({ feed(ls, i + 1, r.out) :
                          ls \in {[layers EXCEPT ![i] = r.layer]} }) :
               r \in {function_signal(layers[i], input_layer)} })

\* NeuralNetwork._feedward_signal: [raised, exc, nn, out].  A sample of
\* fewer than two dimensions has no shape[1] (IndexError); with no layer the
\* returned output_layer is unbound (UnboundLocalError).
_feedward_signal(net, sample) ==
    IF Len(sample.shape) < 2
    THEN [raised |-> TRUE, exc |-> "IndexError", nn |-> net, out |-> sample]
    ELSE IF sample.shape[2] # net.input_dimension
    THEN [raised |-> TRUE, exc |-> "ValueError", nn |-> net, out |-> sample]
    ELSE IF Len(net.layers) = 0
    THEN [raised |-> TRUE, exc |-> "UnboundLocalError", nn |-> net,
          out |-> sample]
    ELSE The({ [raised |-> r.raised,
                exc |-> IF r.raised THEN "ValueError" ELSE "",
                nn |-> [net EXCEPT !.layers = r.layers],
                out |-> r.out] :
               r \in {feed(net.layers, 1, sample)} })

\* NeuralNetwork.predict
predict(net, sample) == _feedward_signal(net, sample)

\* ------------------------------------------------------------ input domains
Dims == 1..MaxDim
WeightVals == {1}
BatchVals == {1}

\* learning_rate.Constant(num_unit, num_input, value): the value matrix and
\* the epoch of the last update (-1: never updated)
LearningRate(r, c, v) ==
    [shape |-> <<r, c>>, bias |-> v, val |-> v, epoch |-> -1]

\* an object that is not a Layer
NotALayer == [kind |-> "object"]

\* hidden layers with Relu and output layers with Linear activation, as
\* monk_1_example.py and grid_search.py build them
Layers ==
    { NewLayer(k, WMat(u, i + 1, w, w), LearningRate(u, i + 1, 1),
               IF k = "HiddenLayer" THEN "Relu" ELSE "Linear") :
        k \in {"HiddenLayer", "OutputLayer"}, u \in Dims, i \in Dims,
        w \in WeightVals }

NoFit == [active |-> FALSE]

NoCall == [op |-> "none", raised |-> FALSE, exc |-> ""]

\* no array, schedule or layer object was created
NoMem == [heap |-> <<>>, layers |-> <<>>]

\* -------------------------------------------------------------------- state
\* before any constructor call
InitCtor ==
    /\ nn = NoNetwork
    /\ pc = "start"
    /\ call = NoCall
    /\ fit = NoFit
    /\ fits = 0
    /\ mem = NoMem

\* nn = NeuralNetwork(max_epochs, optimizer, loss, metric, momentum_rate,
\*                    regularization_rate, batch_size)
Construct ==
    /\ pc = "start"
    /\ \E max_epochs \in 0..MaxEpochsArg,
          optimizer \in optimizer_implemented \cup {"adam"},
          loss \in loss_functions \cup {"hinge"},
          metric \in metric_functions \cup {"", "f1"},
          momentum_rate \in {-1, 0, 1},
          regularization_rate \in {-1, 0, 1},
          batch_size \in 0..MaxBatchArg :
        LET a == [max_epochs |-> max_epochs, optimizer |-> optimizer,
                  loss |-> loss, metric |-> metric,
                  momentum_rate |-> momentum_rate,
                  regularization_rate |-> regularization_rate,
                  batch_size |-> batch_size]
        IN \E r \in {NeuralNetwork(a)} :
           /\ nn' = r.nn
           /\ pc' = IF r.raised THEN "rejected" ELSE "ready"
           /\ call' = [op |-> "__init__", raised |-> r.raised,
                       exc |-> IF r.raised THEN "InvalidNeuralNetwork" ELSE "",
                       arg |-> a]
    /\ UNCHANGED <<fit, fits, mem>>

NextCtor == Construct

SpecCtor == InitCtor /\ [][NextCtor]_vars

\* NeuralNetwork(max_epochs), the other arguments at their defaults
DefaultNetwork == NeuralNetwork(DefaultArgs(MaxEpochsArg)).nn

\* after nn = NeuralNetwork(max_epochs)
Init ==
    /\ nn = DefaultNetwork
    /\ pc = "ready"
    /\ call = NoCall
    /\ fit = NoFit
    /\ fits = 0
    /\ mem = NoMem

\* nn.add_layer(layer)
AddLayer ==
    /\ pc = "ready"
    /\ \E layer \in Layers \cup {NotALayer} :
        \E r \in {add_layer(nn, layer)} :
           /\ Len(nn.layers) < MaxLayers \/ r.raised
           /\ nn' = r.nn
           /\ call' = [op |-> "add_layer", raised |-> r.raised,
                       exc |-> IF r.raised THEN "ValueError" ELSE "",
                       is_layer |-> IsLayer(layer),
                       num_input |-> IF IsLayer(layer)
                                     THEN get_num_input(layer) ELSE -1]
    /\ UNCHANGED <<pc, fit, fits, mem>>

\* nn.predict(sample) on a 2-d batch
Predict ==
    /\ pc = "ready"
    /\ \E rows \in 1..MaxRows, cols \in Dims, v \in BatchVals :
        \E r \in {predict(nn, Mat(rows, cols, v))} :
           /\ nn' = r.nn
           /\ call' = [op |-> "predict", raised |-> r.raised, exc |-> r.exc,
                       arg |-> Mat(rows, cols, v), ret |-> r.out]
    /\ UNCHANGED <<pc, fit, fits, mem>>

\* nn.layers[i].function_signal(input_values), called on the layer itself
FunctionSignal ==
    /\ pc = "ready"
    /\ \E i \in 1..Len(nn.layers), rows \in 1..MaxRows, cols \in Dims,
          v \in BatchVals :
        \E r \in {function_signal(nn.layers[i], Mat(rows, cols, v))} :
           /\ nn' = [nn EXCEPT !.layers[i] = r.layer]
           /\ call' = [op |-> "function_signal", raised |-> r.raised,
                       exc |-> IF r.raised THEN "ValueError" ELSE "",
                       index |-> i, arg |-> Mat(rows, cols, v),
                       ret |-> r.out]
    /\ UNCHANGED <<pc, fit, fits, mem>>

\* NeuralNetwork.deepcopy(self): [raised, exc, nn], nn the new network.  The
\* arguments of the constructor call are evaluated first; self.type and
\* self.type_classifier are attributes that no method assigns.  The call
\* itself has eight arguments for the seven parameters of __init__.
NeuralNetwork_deepcopy(net) ==
    IF "type" \notin DOMAIN net \/ "type_classifier" \notin DOMAIN net
    THEN [raised |-> TRUE, exc |-> "AttributeError", nn |-> NoNetwork]
    ELSE [raised |-> TRUE, exc |-> "TypeError", nn |-> NoNetwork]

\* nn.deepcopy()
DeepCopy ==
    /\ pc = "ready"
    /\ \E r \in {NeuralNetwork_deepcopy(nn)} :
          call' = [op |-> "deepcopy", raised |-> r.raised, exc |-> r.exc,
                   ret |-> r.nn]
    /\ UNCHANGED <<nn, pc, fit, fits, mem>>

Next ==
    \/ AddLayer
    \/ Predict
    \/ DeepCopy

Spec == Init /\ [][Next]_vars

\* after nn = NeuralNetwork(max_epochs); nn.add_layer(a); nn.add_layer(b),
\* the second call accepted or rejected
InitLayer ==
    /\ \E a \in Layers, b \in Layers :
         nn = add_layer(add_layer(DefaultNetwork, a).nn, b).nn
    /\ pc = "ready"
    /\ call = NoCall
    /\ fit = NoFit
    /\ fits = 0
    /\ mem = NoMem

NextLayer ==
    \/ Predict
    \/ FunctionSignal

SpecLayer == InitLayer /\ [][NextLayer]_vars

\* ---------------------------------------------------------------- training
\* ActivationFunction.derivative on one entry
activation_derivative(act, v) ==
    IF act = "Relu" THEN (IF v > 0 THEN 1 ELSE 0) ELSE 1

\* LossFunction.loss of a prediction matrix against targets of value t: the
\* squared difference summed over the columns (the same for every sample)
loss_value(predicted, t) ==
    predicted.shape[2] * (predicted.val - t) * (predicted.val - t)

\* LossFunction.derivative(outputs, targets)
loss_derivative(outputs, t) ==
    Mat(outputs.shape[1], outputs.shape[2], outputs.val - t)

\* the sum over the samples of the outer products of errors and inputs, as
\* both error_signal methods compute it
delta_w(errors, inputs) ==
    WMat(errors.shape[2], inputs.shape[2],
         errors.shape[1] * errors.val * inputs.bias,
         errors.shape[1] * errors.val * inputs.val)

\* OutputLayer.error_signal(targets, outputs, loss)
output_error_signal(layer, t, outputs) ==
    LET difference == loss_derivative(outputs, t)
        errors == Mat(layer.net.shape[1], layer.net.shape[2],
                      activation_derivative(layer.activation, layer.net.val)
                        * difference.val)
    IN [layer EXCEPT !.errors = errors,
                     !.current_delta_w = delta_w(errors, layer.inputs)]

\* HiddenLayer.error_signal(downStreamErrors, downStreamWeights)
hidden_error_signal(layer, downStreamErrors, downStreamWeights) ==
    LET \* matmul(downStreamErrors, downStreamWeights[0:, 1:])
        back == Mat(downStreamErrors.shape[1], downStreamWeights.shape[2] - 1,
                    downStreamErrors.shape[2] * downStreamErrors.val
                      * downStreamWeights.val)
        errors == Mat(layer.net.shape[1], layer.net.shape[2],
                      activation_derivative(layer.activation, layer.net.val)
                        * back.val)
    IN [layer EXCEPT !.errors = errors,
                     !.current_delta_w = delta_w(errors, layer.inputs)]

\* Layer.update_weight(momentum_rate, regularization_rate, learning_rates):
\* delta = -(learning_rates * current_delta_w) + momentum_rate * old_delta_w
\*         - regularization_rate * weights; weights += delta (in place, the
\* transposed view follows); old_delta_w = delta.  ratio is the batch ratio
\* <<batch_size, total_samples>> that scales the regularization rate.
update_weight(layer, momentum_rate, regularization_rate, ratio) ==
    LET lr == layer.learning_rates
        penalty(w) == (regularization_rate * ratio[1] * w) \div ratio[2]
        delta ==
            WMat(layer.weights.shape[1], layer.weights.shape[2],
                 (0 - lr.bias * layer.current_delta_w.bias)
                   + momentum_rate * layer.old_delta_w.bias
                   - penalty(layer.weights.bias),
                 (0 - lr.val * layer.current_delta_w.val)
                   + momentum_rate * layer.old_delta_w.val
                   - penalty(layer.weights.val))
        weights == [layer.weights EXCEPT !.bias = @ + delta.bias,
                                         !.val = @ + delta.val]
    IN [layer EXCEPT !.weights = weights,
                     !.transposedWeights = transpose(weights),
                     !.old_delta_w = delta]

\* Layer.update_learning_rate(epoch): a constant schedule keeps its values
update_learning_rate(layer, epoch) ==
    [layer EXCEPT !.learning_rates.epoch = epoch]

\* the error signals of layers[1..i], last to first, layers[i + 1] done
RECURSIVE hidden_error_signals(_, _)
hidden_error_signals(layers, i) ==
    IF i < 1
    THEN layers
    ELSE The({ hidden_error_signals(ls, i - 1) :
               ls \in {[layers EXCEPT ![i] = hidden_error_signal(
                                                 layers[i],
                                                 layers[i + 1].errors,
                                                 layers[i + 1].weights)]} })

\* Optimizer._back_propagation(network, window_examples, batch_ratio, loss)
\* on a window of r samples of input value x and target value t
_back_propagation(net, r, x, t, ratio) ==
    LET n == Len(net.layers)
    IN The({ [net EXCEPT !.layers =
                 [i \in 1..n |->
                     update_weight(signalled[i], net.momentum_rate,
                                   net.regularization_rate, ratio)]] :
             signalled \in
               { hidden_error_signals(
                     [fwd.nn.layers EXCEPT
                        ![n] = output_error_signal(fwd.nn.layers[n], t,
                                                   fwd.out)],
                     n - 1) :
                 fwd \in {_feedward_signal(
                              net, Mat(r, net.input_dimension, x))} } })

\* Report(max_epochs, min_error): the series of one fit call, each entry
\* <<epoch, value>>
Report(max_epochs, min_error) ==
    [max_epochs |-> max_epochs, min_error |-> min_error,
     training_error |-> <<>>, training_accuracy |-> <<>>,
     validation_error |-> <<>>, validation_accuracy |-> <<>>,
     test_error |-> <<>>]

add_training_error(report, error, epoch) ==
    [report EXCEPT !.training_error = Append(@, <<epoch, error>>)]

add_training_accuracy(report, accuracy, epoch) ==
    [report EXCEPT !.training_accuracy = Append(@, <<epoch, accuracy>>)]

add_validation_error(report, error, validation_error, epoch) ==
    [report EXCEPT !.validation_error = Append(@, <<epoch, validation_error>>)]

add_validation_accuracy(report, accuracy, epoch) ==
    [report EXCEPT !.validation_accuracy = Append(@, <<epoch, accuracy>>)]

add_test_error(report, test_error, epoch) ==
    [report EXCEPT !.test_error = Append(@, <<epoch, test_error>>)]

\* metric_functions[metric](predicted, targets): 1 when every prediction is
\* its target
metric_value(predicted, t) == IF predicted.val = t THEN 1 ELSE 0

\* np.Inf, the error before the first epoch
Inf == 1000000

\* fit keeping the Report of the call before
fit_begin_keep_report(net, d, min_error) ==
    LET total_samples == d.total_samples
        batch_size == IF net.optimizer = "SGD" THEN total_samples
                      ELSE net.batch_size
    IN [nn |-> [net EXCEPT !.batch_size = batch_size],
        locals |-> [active |-> TRUE,
                    report |-> IF "report" \in DOMAIN fit THEN fit.report
                               ELSE Report(net.max_epochs, min_error),
                    data |-> d,
                    min_error |-> min_error,
                    total_samples |-> total_samples,
                    num_epochs |-> 0,
                    range_pos |-> 0,
                    executed |-> <<>>,
                    error |-> Inf,
                    num_window |-> total_samples \div batch_size,
                    batch_total_samples_ratio |-> <<batch_size, total_samples>>,
                    stop |-> FALSE]]

\* fit keeping the batch size of the constructor for every optimizer
fit_begin_keep_batch_size(net, d, min_error) ==
    LET total_samples == d.total_samples
        batch_size == net.batch_size
    IN [nn |-> [net EXCEPT !.batch_size = batch_size],
        locals |-> [active |-> TRUE,
                    report |-> Report(net.max_epochs, min_error),
                    data |-> d,
                    min_error |-> min_error,
                    total_samples |-> total_samples,
                    num_epochs |-> 0,
                    \* position of the iterator of range(self.max_epochs)
                    range_pos |-> 0,
                    \* <<num_epochs, error>> of every epoch run to its
                    \* convergence check
                    executed |-> <<>>,
                    error |-> Inf,
                    \* math.ceil(total_samples // self.batch_size)
                    num_window |-> total_samples \div batch_size,
                    batch_total_samples_ratio |-> <<batch_size, total_samples>>,
                    stop |-> FALSE]]

\* fit, from its entry to the epoch loop: the network and the local
\* variables.  d is the data: total_samples training samples of input value
\* x and target value t, n_validation validation samples and n_test test
\* samples of the same values.
fit_begin(net, d, min_error) ==
    LET total_samples == d.total_samples
        batch_size == IF net.optimizer = "SGD" THEN total_samples
                      ELSE net.batch_size
    IN [nn |-> [net EXCEPT !.batch_size = batch_size],
        locals |-> [active |-> TRUE,
                    report |-> Report(net.max_epochs, min_error),
                    data |-> d,
                    min_error |-> min_error,
                    total_samples |-> total_samples,
                    num_epochs |-> 0,
                    \* position of the iterator of range(self.max_epochs)
                    range_pos |-> 0,
                    \* <<num_epochs, error>> of every epoch run to its
                    \* convergence check
                    executed |-> <<>>,
                    error |-> Inf,
                    \* math.ceil(total_samples // self.batch_size)
                    num_window |-> total_samples \div batch_size,
                    batch_total_samples_ratio |-> <<batch_size, total_samples>>,
                    stop |-> FALSE]]

\* len(training_examples[index * batch_size : (index + 1) * batch_size])
window_size(total_samples, batch_size, index) ==
    LET lo == IF index * batch_size < total_samples
              THEN index * batch_size ELSE total_samples
        hi == IF (index + 1) * batch_size < total_samples
              THEN (index + 1) * batch_size ELSE total_samples
    IN hi - lo

\* the training loop of one epoch over the windows index..num_window - 1
RECURSIVE train_windows(_, _, _)
train_windows(net, f, index) ==
    IF index >= f.num_window
    THEN net
    ELSE The({ train_windows(trained, f, index + 1) :
               trained \in
                 {_back_propagation(
                      net, window_size(f.total_samples, net.batch_size, index),
                      f.data.x, f.data.t, f.batch_total_samples_ratio)} })

\* the epoch loop body after the training loss: the validation and test
\* series, the convergence check and the learning rates
fit_epoch_check(net, f, num_epochs, error, report) ==
    LET d == f.data
        \* self.predict(test_example[0]) on the input vector of a sample
        test == IF d.n_test > 0
                THEN predict(net, Vec(net.input_dimension, d.x))
                ELSE [raised |-> FALSE, exc |-> "", nn |-> net,
                      out |-> Scalar(0)]
    IN The({ IF s.raised
             THEN [raised |-> TRUE, exc |-> s.exc, nn |-> s.nn,
                   locals |-> [f EXCEPT !.report = report, !.error = error,
                                        !.num_epochs = num_epochs,
                                        !.range_pos = @ + 1]]
             ELSE The({ IF error <= f.min_error
                        THEN [raised |-> FALSE, exc |-> "", nn |-> s.nn,
                              locals |-> [before_check EXCEPT !.stop = TRUE]]
                        ELSE [raised |-> FALSE, exc |-> "",
                              nn |-> [s.nn EXCEPT !.layers =
                                        [i \in 1..Len(s.nn.layers) |->
                                            update_learning_rate(
                                                s.nn.layers[i], num_epochs)]],
                              locals |-> before_check] :
                        before_check \in
                          {[f EXCEPT
                              !.report =
                                  IF d.n_test > 0
                                  THEN add_test_error(
                                           report, loss_value(s.out, d.t),
                                           num_epochs)
                                  ELSE report,
                              !.error = error,
                              !.num_epochs = num_epochs,
                              !.range_pos = @ + 1,
                              !.executed = Append(@, <<num_epochs, error>>)]} }) :
             s \in {test} })

\* fit_epoch_report looking at the validation set in the first epoch only
fit_epoch_report_validate_once(net, f, num_epochs, training_predicted) ==
    LET d == f.data
        error == loss_value(training_predicted, d.t)
        r1 == add_training_error(f.report, error, num_epochs)
        r2 == IF net.metric # ""
              THEN add_training_accuracy(
                       r1, metric_value(training_predicted, d.t), num_epochs)
              ELSE r1
    IN IF d.n_validation > 0 /\ num_epochs = 0
       THEN The({ fit_epoch_check(
                      validation.nn, f, num_epochs, error,
                      add_validation_error(
                          IF net.metric # ""
                          THEN add_validation_accuracy(
                                   r2, metric_value(validation.out, d.t),
                                   num_epochs)
                          ELSE r2,
                          error, loss_value(validation.out, d.t),
                          num_epochs)) :
                  validation \in
                    {predict(net, Mat(d.n_validation, net.input_dimension,
                                      d.x))} })
       ELSE fit_epoch_check(net, f, num_epochs, error, r2)

\* the epoch loop body after the prediction on the training set: the
\* training loss and metric, then the validation series
fit_epoch_report(net, f, num_epochs, training_predicted) ==
    LET d == f.data
        error == loss_value(training_predicted, d.t)
        r1 == add_training_error(f.report, error, num_epochs)
        r2 == IF net.metric # ""
              THEN add_training_accuracy(
                       r1, metric_value(training_predicted, d.t), num_epochs)
              ELSE r1
    IN IF d.n_validation > 0
       THEN The({ fit_epoch_check(
                      validation.nn, f, num_epochs, error,
                      add_validation_error(
                          IF net.metric # ""
                          THEN add_validation_accuracy(
                                   r2, metric_value(validation.out, d.t),
                                   num_epochs)
                          ELSE r2,
                          error, loss_value(validation.out, d.t),
                          num_epochs)) :
                  validation \in
                    {predict(net, Mat(d.n_validation, net.input_dimension,
                                      d.x))} })
       ELSE fit_epoch_check(net, f, num_epochs, error, r2)

\* the body of the epoch loop of fit for epoch num_epochs:
\* [raised, exc, nn, locals]
fit_epoch(net, f, num_epochs) ==
    The({ fit_epoch_report(training.nn, f, num_epochs, training.out) :
          training \in
            { predict(trained,
                      Mat(f.total_samples, trained.input_dimension, f.data.x)) :
              trained \in {train_windows(net, f, 0)} } })

\* --------------------------------------------------------- training state
Hidden(u, i, w) ==
    NewLayer("HiddenLayer", WMat(u, i + 1, w, w), LearningRate(u, i + 1, 1),
             "Relu")

Output(u, i, w) ==
    NewLayer("OutputLayer", WMat(u, i + 1, w, w), LearningRate(u, i + 1, 1),
             "Linear")

\* constructor arguments that the constructor accepts
HyperArgs ==
    { [max_epochs |-> e, optimizer |-> o, loss |-> "euclidean_loss",
       metric |-> k, momentum_rate |-> m, regularization_rate |-> 0,
       batch_size |-> b] :
        e \in 1..MaxEpochsArg, o \in optimizer_implemented,
        k \in metric_functions \cup {""}, m \in {0, 1},
        b \in 1..MaxBatchArg }

\* one output layer, or a hidden layer and an output layer, of one output
LayerChains ==
    { <<Output(1, i, 1)>> : i \in Dims }
      \cup { <<Hidden(u, i, 1), Output(1, u, 1)>> : u \in Dims, i \in Dims }

\* nn = NeuralNetwork(...); nn.add_layer(chain[1]); ...
RECURSIVE Assemble(_, _, _)
Assemble(net, chain, i) ==
    IF i > Len(chain) THEN net
    ELSE Assemble(add_layer(net, chain[i]).nn, chain, i + 1)

TrainVals == {0}
MinErrors == {0, 1}

\* data sets: equal samples of input value x and target value 0
DataSets ==
    { [total_samples |-> n, x |-> x, t |-> 0, n_validation |-> v,
       n_test |-> s] :
        n \in 1..MaxSamples, x \in TrainVals, v \in {0, 1}, s \in {0, 1} }

\* after the network was constructed and its layers were added
InitFit ==
    /\ \E a \in HyperArgs, chain \in LayerChains :
         nn = Assemble(NeuralNetwork(a).nn, chain, 1)
    /\ pc = "ready"
    /\ call = NoCall
    /\ fit = NoFit
    /\ fits = 0
    /\ mem = NoMem

\* nn.fit(training_examples, validation_samples, test_samples, min_error),
\* up to the epoch loop
FitBegin ==
    /\ pc = "ready"
    /\ fits < MaxFits
    /\ Len(nn.layers) >= 1
    /\ \E d \in DataSets, min_error \in MinErrors :
        \E b \in {fit_begin(nn, d, min_error)} :
           /\ nn' = b.nn
           /\ fit' = b.locals
    /\ pc' = "fit"
    /\ call' = [op |-> "fit", raised |-> FALSE, exc |-> "",
                returned |-> FALSE]
    /\ fits' = fits + 1
    /\ UNCHANGED mem

\* one iteration of the epoch loop; an exception leaves fit
FitEpoch ==
    /\ pc = "fit"
    /\ ~fit.stop
    /\ fit.range_pos < nn.max_epochs
    /\ \E r \in {fit_epoch(nn, fit, fit.range_pos)} :
          /\ nn' = r.nn
          /\ IF r.raised
             THEN /\ fit' = [r.locals EXCEPT !.active = FALSE]
                  /\ pc' = "ready"
                  /\ call' = [op |-> "fit", raised |-> TRUE, exc |-> r.exc,
                              returned |-> FALSE]
             ELSE /\ fit' = r.locals
                  /\ UNCHANGED <<pc, call>>
    /\ UNCHANGED <<fits, mem>>

\* return report, after the break or at the end of the range
FitReturn ==
    /\ pc = "fit"
    /\ fit.stop \/ fit.range_pos >= nn.max_epochs
    /\ fit' = [fit EXCEPT !.active = FALSE]
    /\ pc' = "ready"
    /\ call' = [op |-> "fit", raised |-> FALSE, exc |-> "",
                returned |-> TRUE, ret |-> fit.report]
    /\ UNCHANGED <<nn, fits, mem>>

NextFit ==
    \/ FitBegin
    \/ FitEpoch
    \/ FitReturn

SpecFit == InitFit /\ [][NextFit]_vars

\* ------------------------------------------------- layer objects in memory
\* Arrays, learning-rate schedules and activation objects are blocks of
\* mem.heap, named by their position; a layer object of mem.layers holds the
\* positions of its weights, of its learning rates and of its activation.
\* Two layers share storage when they hold the same position.
MaxObjects == 2      \* layer objects created in one run

\* the blocks a caller may pass as weights: matrices, a 1-d array and a list
ObjShapes == {<<1, 2>>, <<2, 3>>}
WeightArgs ==
    { WMat(sh[1], sh[2], 1, 1) : sh \in ObjShapes }
      \cup {Vec(2, 1), [list |-> <<1>>]}

\* ... as learning rates: schedules of the matrix shapes and of a 1-d shape,
\* and an array that is not a LearningRate
LearningRateArgs ==
    { LearningRate(sh[1], sh[2], 1) : sh \in ObjShapes }
      \cup {[shape |-> <<2>>, bias |-> 1, val |-> 1, epoch |-> -1],
            Mat(1, 2, 1)}

\* ... as activation: an activation function object and another object
ActivationArgs == {[class |-> "Relu"], [class |-> "ML"]}

\* isinstance(x, np.ndarray)
is_ndarray(x) == "shape" \in DOMAIN x /\ "epoch" \notin DOMAIN x

\* isinstance(x, LearningRate)
is_LearningRate(x) == "epoch" \in DOMAIN x

\* isinstance(x, ActivationFunction)
is_ActivationFunction(x) ==
    "class" \in DOMAIN x /\ x.class \in {"Relu", "Linear"}

\* a new block holding value x; its position is the new length of the heap
alloc(m, x) == [m EXCEPT !.heap = Append(@, x)]

\* the array that mem.layers[i] holds as weights
weights_of(m, i) == m.heap[m.layers[i].weights]

\* Layer.__init__ without the comparison of the two shapes
Layer_init_any_shape(m, kind, w, l, a) ==
    LET weights == m.heap[w]
        learning_rates == m.heap[l]
        activation == m.heap[a]
    IN IF ~is_ndarray(weights) \/ ~is_LearningRate(learning_rates)
          \/ ~is_ActivationFunction(activation)
       THEN [raised |-> TRUE, exc |-> "ValueError", mem |-> m]
       ELSE IF Len(weights.shape) # 2
       THEN [raised |-> TRUE, exc |-> "ValueError", mem |-> m]
       ELSE [raised |-> FALSE, exc |-> "",
             mem |-> [m EXCEPT !.layers =
                        Append(@, [kind |-> kind,
                                   weights |-> w,
                                   transposedWeights |-> w,
                                   learning_rates |-> l,
                                   activation |-> a,
                                   num_unit |-> weights.shape[1],
                                   num_input |-> weights.shape[2] - 1])]]

\* Layer.__init__(self, weights, learning_rates, activation) of the classes
\* Layer, HiddenLayer and OutputLayer, on the positions w, l and a of its
\* arguments: the new layer is the last of mem.layers.  transposedWeights is
\* a view of the storage of weights.  The caches start as in NewLayer.
Layer_init(m, kind, w, l, a) ==
    LET weights == m.heap[w]
        learning_rates == m.heap[l]
        activation == m.heap[a]
    IN IF ~is_ndarray(weights) \/ ~is_LearningRate(learning_rates)
          \/ ~is_ActivationFunction(activation)
       THEN [raised |-> TRUE, exc |-> "ValueError", mem |-> m]
       ELSE IF weights.shape # learning_rates.shape
       THEN [raised |-> TRUE, exc |-> "ValueError", mem |-> m]
       \* self.num_unit, self.num_input = weights.shape
       ELSE IF Len(weights.shape) # 2
       THEN [raised |-> TRUE, exc |-> "ValueError", mem |-> m]
       ELSE [raised |-> FALSE, exc |-> "",
             mem |-> [m EXCEPT !.layers =
                        Append(@, [kind |-> kind,
                                   weights |-> w,
                                   transposedWeights |-> w,
                                   learning_rates |-> l,
                                   activation |-> a,
                                   num_unit |-> weights.shape[1],
                                   num_input |-> weights.shape[2] - 1])]]

\* Layer.deepcopy handing its own weights to the new layer
Layer_deepcopy_shared(m, i) ==
    LET self == m.layers[i]
        m1 == alloc(m, m.heap[self.learning_rates])
    IN Layer_init(m1, self.kind, self.weights, Len(m1.heap), self.activation)

\* Layer.deepcopy(self) of mem.layers[i]: copy.deepcopy(self.weights) and
\* self.learning_rates.deepcopy() are new blocks, self.activation is passed
\* as it is, and the class of self is the class of the new layer
Layer_deepcopy(m, i) ==
    LET self == m.layers[i]
        m1 == alloc(m, m.heap[self.weights])
        m2 == alloc(m1, m.heap[self.learning_rates])
        kind == IF self.kind = "HiddenLayer" THEN "HiddenLayer"
                ELSE IF self.kind = "OutputLayer" THEN "OutputLayer"
                ELSE "Layer"
    IN Layer_init(m2, kind, Len(m1.heap), Len(m2.heap), self.activation)

\* the values a weight matrix is overwritten with
WriteVals == {1, 2}

InitObj ==
    /\ nn = NoNetwork
    /\ pc = "ready"
    /\ call = NoCall
    /\ fit = NoFit
    /\ fits = 0
    /\ mem = NoMem

\* kind(weights, learning_rates, activation) on new argument objects; the
\* arguments of a rejected call are dropped
LayerInit ==
    /\ \E kind \in {"HiddenLayer", "OutputLayer"}, wv \in WeightArgs,
          lv \in LearningRateArgs, av \in ActivationArgs :
        LET m3 == alloc(alloc(alloc(mem, wv), lv), av)
            n == Len(mem.heap)
        IN \E r \in {Layer_init(m3, kind, n + 1, n + 2, n + 3)} :
             /\ Len(mem.layers) < MaxObjects \/ r.raised
             /\ mem' = IF r.raised THEN mem ELSE r.mem
             /\ call' = [op |-> "Layer", raised |-> r.raised, exc |-> r.exc,
                         args |-> <<wv, lv, av>>]
    /\ UNCHANGED <<nn, pc, fit, fits>>

\* mem.layers[i].deepcopy(); the copy is the last layer of mem.layers
LayerDeepcopy ==
    /\ Len(mem.layers) < MaxObjects
    /\ \E i \in 1..Len(mem.layers) :
        \E r \in {Layer_deepcopy(mem, i)} :
          /\ mem' = r.mem
          /\ call' = [op |-> "Layer.deepcopy", raised |-> r.raised,
                      exc |-> r.exc, index |-> i]
    /\ UNCHANGED <<nn, pc, fit, fits>>

\* the weights of mem.layers[i] are changed in place (weights[...] = v, as a
\* weight update does)
WriteWeights ==
    /\ \E i \in 1..Len(mem.layers), v \in WriteVals :
          /\ mem' = [mem EXCEPT !.heap[mem.layers[i].weights].val = v]
          /\ call' = [op |-> "write", raised |-> FALSE, exc |-> "",
                      index |-> i]
    /\ UNCHANGED <<nn, pc, fit, fits>>

\* layer.weights = x on mem.layers[i]: the attribute names the array x from
\* now on, while transposedWeights stays the view that __init__ made of the
\* array given to the constructor.  An array that was assigned before is
\* held by nothing else, so its block is used again.
replace_weights(m, i, x) ==
    LET layer == m.layers[i]
    IN IF layer.weights # layer.transposedWeights
       THEN [m EXCEPT !.heap[layer.weights] = x]
       ELSE LET m1 == alloc(m, x)
            IN [m1 EXCEPT !.layers[i].weights = Len(m1.heap)]

\* mem.layers[i].weights = an array of the shape of the weights
ReplaceWeights ==
    /\ \E i \in 1..Len(mem.layers), v \in WriteVals :
          /\ mem' = replace_weights(mem, i,
                                    [weights_of(mem, i) EXCEPT !.val = v])
          /\ call' = [op |-> "replace", raised |-> FALSE, exc |-> "",
                      index |-> i]
    /\ UNCHANGED <<nn, pc, fit, fits>>

NextObj ==
    \/ LayerInit
    \/ LayerDeepcopy
    \/ WriteWeights

SpecObj == InitObj /\ [][NextObj]_vars

\* layers whose weights are updated in place and replaced
NextWeights ==
    \/ LayerInit
    \/ WriteWeights
    \/ ReplaceWeights

SpecWeights == InitObj /\ [][NextWeights]_vars

\* ------------------------------------------- calls on the layers of a network
\* OutputLayer.error_signal(targets, outputs, loss) and
\* HiddenLayer.error_signal(downStreamErrors, downStreamWeights) called on a
\* layer in any state; a is targets (their value) or downStreamErrors, b is
\* outputs or downStreamWeights.  A layer that never ran function_signal
\* has net = 0 and inputs = 0: errors is assigned and zip(self.errors,
\* self.inputs) raises TypeError.  Neither method looks at whether
\* function_signal ran since the last error_signal.
error_signal(layer, a, b) ==
    IF layer.inputs = Scalar(0)
    THEN [raised |-> TRUE, exc |-> "TypeError",
          layer |-> [layer EXCEPT !.errors =
                       IF layer.kind = "OutputLayer"
                       THEN Mat(b.shape[1], b.shape[2],
                                activation_derivative(layer.activation, 0)
                                  * loss_derivative(b, a).val)
                       ELSE Mat(a.shape[1], b.shape[2] - 1,
                                activation_derivative(layer.activation, 0)
                                  * a.shape[2] * a.val * b.val)]]
    ELSE [raised |-> FALSE, exc |-> "",
          layer |-> IF layer.kind = "OutputLayer"
                    THEN output_error_signal(layer, a, b)
                    ELSE hidden_error_signal(layer, a, b)]

\* the number of arguments that error_signal of a layer class takes
error_signal_arity(kind) == IF kind = "OutputLayer" THEN 3 ELSE 2

\* NeuralNetwork._back_propagation(example_sample, target_predicted) of
\* neuralNetwork.py: [raised, exc, nn, trace], trace the calls on the layers
\* that returned, <<method, position of the layer>>.  It gives two arguments
\* to error_signal of the last layer; its loop starts at the position
\* len(self.layers[:-2]) and reads the layer after it; Layer has no method
\* update_weight.
neuralNetwork_back_propagation(net, example_sample, target_predicted) ==
    LET n == Len(net.layers)
        last == net.layers[n]
    IN IF error_signal_arity(last.kind) # 2
       THEN [raised |-> TRUE, exc |-> "TypeError", nn |-> net,
             trace |-> <<>>]
       ELSE LET first == error_signal(last, target_predicted, example_sample)
                net1 == [net EXCEPT !.layers[n] = first.layer]
            IN IF first.raised
               THEN [raised |-> TRUE, exc |-> first.exc, nn |-> net1,
                     trace |-> <<>>]
               ELSE IF n = 1
               \* index = 0: self.layers[index + 1]
               THEN [raised |-> TRUE, exc |-> "IndexError", nn |-> net1,
                     trace |-> <<<<"error_signal", n>>>>]
               ELSE [raised |-> TRUE, exc |-> "AttributeError",
                     nn |-> [net1 EXCEPT !.layers =
                               hidden_error_signals(net1.layers, n - 1)],
                     trace |-> [j \in 1..n |->
                                  <<"error_signal", n + 1 - j>>]]

\* the targets and the errors given to error_signal
SignalVals == {0, 1}

\* after the network was constructed and its layers were added
InitSignal ==
    /\ \E chain \in LayerChains : nn = Assemble(DefaultNetwork, chain, 1)
    /\ pc = "ready"
    /\ call = NoCall
    /\ fit = NoFit
    /\ fits = 0
    /\ mem = NoMem

\* nn.layers[i].error_signal(...): an output layer is given targets and
\* outputs of its width, a hidden layer the errors and the weights of the
\* layer after it; the arguments have the rows of the cached net
ErrorSignal ==
    /\ pc = "ready"
    /\ \E i \in 1..Len(nn.layers), rows \in 1..MaxRows, v \in SignalVals :
        LET layer == nn.layers[i]
        IN /\ layer.inputs # Scalar(0) => rows = layer.net.shape[1]
           /\ \E r \in {IF layer.kind = "OutputLayer"
                        THEN error_signal(layer, 0,
                                          Mat(rows, layer.num_unit, v))
                        ELSE error_signal(
                                 layer,
                                 Mat(rows, nn.layers[i + 1].num_unit, v),
                                 nn.layers[i + 1].weights)} :
                /\ nn' = [nn EXCEPT !.layers[i] = r.layer]
                /\ call' = [op |-> "error_signal", raised |-> r.raised,
                            exc |-> r.exc, index |-> i]
    /\ UNCHANGED <<pc, fit, fits, mem>>

\* nn._back_propagation(example_sample, target_predicted) of neuralNetwork.py
BackPropagation ==
    /\ pc = "ready"
    /\ \E rows \in 1..MaxRows, v \in SignalVals :
        \E r \in {neuralNetwork_back_propagation(
                      nn, Mat(rows, nn.output_dimension, v), 0)} :
           /\ nn' = r.nn
           /\ call' = [op |-> "_back_propagation", raised |-> r.raised,
                       exc |-> r.exc, trace |-> r.trace]
    /\ UNCHANGED <<pc, fit, fits, mem>>

NextSignal ==
    \/ FunctionSignal
    \/ ErrorSignal
    \/ BackPropagation

SpecSignal == InitSignal /\ [][NextSignal]_vars

\* ------------------------------------------------------------------ claims
\* the forward caches of the layers of a network
Caches(net) ==
    [i \in 1..Len(net.layers) |->
        <<net.layers[i].inputs, net.layers[i].net>>]

\* a layer without its forward caches
Uncached(layer) == [layer EXCEPT !.inputs = Scalar(0), !.net = Scalar(0)]

\* a network without the forward caches of its layers
WithoutCaches(net) ==
    [net EXCEPT !.layers = [i \in 1..Len(net.layers) |-> Uncached(net.layers[i])]]

\* C1: add_layer of a layer whose num_input differs from the output
\* dimension of a non-empty network raises ValueError and leaves the layer
\* sequence as it was.
C1_AddLayerMismatchAtomic ==
    [][(/\ call'.op = "add_layer"
        /\ call'.is_layer
        /\ Len(nn.layers) > 0
        /\ call'.num_input # nn.output_dimension)
       => (/\ call'.raised
           /\ call'.exc = "ValueError"
           /\ nn'.layers = nn.layers)]_vars

C1_Witness ==
    /\ call.op = "add_layer"
    /\ call.is_layer
    /\ call.raised
    /\ Len(nn.layers) > 0
    /\ call.num_input # nn.output_dimension

\* C2: every two adjacent layers of the network agree: the number of units
\* of the first is the number of inputs of the second.
C2_AdjacentLayersAgree ==
    \A i \in 1..(Len(nn.layers) - 1) :
        nn.layers[i].num_unit = nn.layers[i + 1].num_input

C2_Witness ==
    /\ call.op = "add_layer"
    /\ call.is_layer
    /\ Len(nn.layers) >= 2
    /\ nn.layers[1].num_input # nn.layers[1].num_unit

\* C3: a network of at least one layer has the num_input of its first layer
\* as input_dimension and the num_unit of its last layer as output_dimension.
C3_DimensionsDerived ==
    Len(nn.layers) >= 1 =>
        /\ nn.input_dimension = nn.layers[1].num_input
        /\ nn.output_dimension = nn.layers[Len(nn.layers)].num_unit

C3_Witness ==
    /\ call.op = "add_layer"
    /\ ~call.raised
    /\ Len(nn.layers) >= 2
    /\ nn.input_dimension # nn.layers[2].num_input
    /\ nn.output_dimension # nn.layers[1].num_unit

\* C6: predict on a network of one or more layers, given a batch of
\* input_dimension columns, returns a matrix of as many rows as the batch
\* and output_dimension columns.
C6_PredictShape ==
    (/\ call.op = "predict"
     /\ Len(nn.layers) >= 1
     /\ call.arg.shape[2] = nn.input_dimension)
    => (/\ ~call.raised
        /\ call.ret.shape = <<call.arg.shape[1], nn.output_dimension>>)

C6_Witness ==
    /\ call.op = "predict"
    /\ ~call.raised
    /\ Len(nn.layers) >= 2
    /\ call.arg.shape[1] > 1
    /\ nn.output_dimension # nn.input_dimension
    /\ nn.output_dimension # nn.layers[1].num_unit

\* C7: predict with a batch whose column count is not input_dimension, and
\* function_signal with a batch whose column count is not the num_input of
\* the layer, raise ValueError and modify the inputs and net of no layer.
C7_ShapeErrorKeepsCaches ==
    [][((\/ /\ call'.op = "predict"
            /\ call'.arg.shape[2] # nn.input_dimension
         \/ /\ call'.op = "function_signal"
            /\ call'.arg.shape[2] # nn.layers[call'.index].num_input)
        => (/\ call'.raised
            /\ call'.exc = "ValueError"
            /\ Caches(nn') = Caches(nn)))]_vars

C7_Witness ==
    /\ call.op \in {"predict", "function_signal"}
    /\ call.raised
    /\ call.exc = "ValueError"
    /\ Len(nn.layers) >= 2
    /\ \A i \in 1..Len(nn.layers) : nn.layers[i].net # Scalar(0)

\* C8: a predict call that returns changes nothing of the network but the
\* inputs and net of its layers.
C8_PredictFrame ==
    [][(call'.op = "predict" /\ ~call'.raised)
       => WithoutCaches(nn') = WithoutCaches(nn)]_vars

C8_Witness ==
    /\ call.op = "predict"
    /\ ~call.raised
    /\ Len(nn.layers) >= 2
    /\ \A i \in 1..Len(nn.layers) : nn.layers[i].net # Scalar(0)

\* the validity of a batch size that the documentation of check_batch_size
\* states: 1 with the SGD optimizer, positive with any other
BatchSizeValid(optimizer, batch_size) ==
    IF optimizer = "SGD" THEN batch_size = 1 ELSE batch_size > 0

\* constructor arguments that the configuration rules reject; the empty
\* metric name stands for no metric
InvalidArgs(a) ==
    \/ a.max_epochs <= 0
    \/ a.optimizer \notin optimizer_implemented
    \/ ~BatchSizeValid(a.optimizer, a.batch_size)
    \/ a.loss \notin loss_functions
    \/ a.metric \notin metric_functions \cup {""}
    \/ a.momentum_rate < 0
    \/ a.regularization_rate < 0

\* C4: the hyperparameters of a constructed network keep their values
\* through every later add_layer, predict and fit call.
C4_HyperparametersImmutable ==
    [][pc # "start" => Hyper(nn') = Hyper(nn)]_vars

\* C5: the constructor raises InvalidNeuralNetwork and yields no network
\* whenever max_epochs <= 0, the batch size is not valid for the optimizer,
\* the optimizer, loss or metric name is not registered, or the momentum or
\* regularization rate is negative.
C5_ConstructorRejects ==
    (call.op = "__init__" /\ InvalidArgs(call.arg))
    => (/\ call.raised
        /\ call.exc = "InvalidNeuralNetwork"
        /\ pc = "rejected"
        /\ nn = NoNetwork)

\* C9: fit runs the epochs 0, 1, 2, ... in order and ends by returning,
\* after the first epoch whose training loss is <= min_error or else after
\* exactly max_epochs epochs, and in no other way.
C9_FitEndsOnConvergenceOrMaxEpochs ==
    (call.op = "fit" /\ pc = "ready")
    => (/\ call.returned
        /\ LET k == Len(fit.executed)
           IN /\ k >= 1
              /\ k <= nn.max_epochs
              /\ \A j \in 1..k : fit.executed[j][1] = j - 1
              /\ \A j \in 1..(k - 1) : fit.executed[j][2] > fit.min_error
              /\ k = nn.max_epochs \/ fit.executed[k][2] <= fit.min_error)

\* C10: the Report that fit returns holds one training-loss entry for each
\* epoch executed in that call, with the keys 0, 1, ..., k-1 in this order,
\* and nothing of an earlier call.
C10_ReportOfOneFit ==
    (call.op = "fit" /\ call.returned)
    => (/\ Len(call.ret.training_error) = Len(fit.executed)
        /\ \A j \in 1..Len(call.ret.training_error) :
             call.ret.training_error[j] = <<j - 1, fit.executed[j][2]>>)

C10_Witness ==
    /\ call.op = "fit"
    /\ call.returned
    /\ fits = 2
    /\ Len(fit.executed) >= 2

\* C11: Layer.deepcopy returns a layer of the class of the original, whose
\* weights equal those of the original and whose activation is the very
\* activation object of the original; a later change of the weights of one
\* layer leaves the weights of every other layer, the copy or the original,
\* as they were.
C11_DeepcopyIndependent ==
    [][/\ call'.op = "Layer.deepcopy" =>
            LET i == call'.index
                n == Len(mem'.layers)
            IN /\ ~call'.raised
               /\ n = Len(mem.layers) + 1
               /\ \A j \in 1..Len(mem.layers) : mem'.layers[j] = mem.layers[j]
               /\ mem'.layers[n].kind = mem.layers[i].kind
               /\ weights_of(mem', n) = weights_of(mem, i)
               /\ weights_of(mem', i) = weights_of(mem, i)
               /\ mem'.layers[n].activation = mem.layers[i].activation
       /\ call'.op = "write" =>
            \A j \in 1..Len(mem.layers) :
                j # call'.index => weights_of(mem', j) = weights_of(mem, j)
      ]_vars

\* a layer and its copy (they hold one activation object) whose weights
\* differ after a write to one of them
C11_Witness ==
    /\ call.op = "write"
    /\ Len(mem.layers) = 2
    /\ mem.layers[1].activation = mem.layers[2].activation
    /\ mem.layers[1].kind = mem.layers[2].kind
    /\ weights_of(mem, 1) # weights_of(mem, 2)

\* what the constructor of a layer must be given: a weight matrix, learning
\* rates of the shape of the weights, an activation function
valid_layer_args(args) ==
    /\ is_ndarray(args[1])
    /\ Len(args[1].shape) = 2
    /\ is_LearningRate(args[2])
    /\ args[2].shape = args[1].shape
    /\ is_ActivationFunction(args[3])

C13_ErrorSignalNeedsForward ==
    [][(/\ call.op = "error_signal"
        /\ call'.op = "error_signal"
        /\ call'.index = call.index)
       => call'.raised]_vars

\* C17: one backpropagation pass runs error_signal of the last layer, then
\* of every other layer from the last but one to the first, then the weight
\* update of every layer, for a network of one or more layers.
C17_BackPropagationOrder ==
    call.op = "_back_propagation"
    => (/\ ~call.raised
        /\ LET n == Len(nn.layers)
           IN call.trace =
                [j \in 1..(2 * n) |->
                    IF j <= n THEN <<"error_signal", n + 1 - j>>
                    ELSE <<"update_weight", j - n>>])

\* C14: NeuralNetwork.deepcopy returns a network of the hyperparameters of
\* the original and of as many layers, each of the class, the shape and the
\* weights of the layer at its position.
C14_NetworkDeepcopy ==
    call.op = "deepcopy"
    => (/\ ~call.raised
        /\ Hyper(call.ret) = Hyper(nn)
        /\ Len(call.ret.layers) = Len(nn.layers)
        /\ \A i \in 1..Len(nn.layers) :
             /\ call.ret.layers[i].kind = nn.layers[i].kind
             /\ call.ret.layers[i].weights = nn.layers[i].weights)

\* the training samples in the windows 0 .. k - 1 of one epoch
RECURSIVE samples_in_windows(_, _, _)
samples_in_windows(total_samples, batch_size, k) ==
    IF k = 0 THEN 0
    ELSE samples_in_windows(total_samples, batch_size, k - 1)
           + window_size(total_samples, batch_size, k - 1)

\* C15: fit runs ceil(total_samples / batch_size) windows in each epoch and
\* every training sample is in one of them.
C15_WindowsCoverTrainingSet ==
    pc = "fit"
    => (/\ fit.num_window
              = (fit.total_samples + nn.batch_size - 1) \div nn.batch_size
        /\ samples_in_windows(fit.total_samples, nn.batch_size,
                              fit.num_window) = fit.total_samples)

\* C16: when fit returns, every layer's learning rates were advanced with
\* the index of the last executed epoch, the epoch of an early stop
\* included.
C16_LearningRateEveryEpoch ==
    (call.op = "fit" /\ call.returned /\ Len(fit.executed) >= 1)
    => \A i \in 1..Len(nn.layers) :
         nn.layers[i].learning_rates.epoch
           = fit.executed[Len(fit.executed)][1]

\* C18: a fit call that was given test samples returns its Report, with
\* one test-loss entry for each executed epoch under the epoch's index.
C18_TestLossEveryEpoch ==
    (call.op = "fit" /\ pc = "ready" /\ fit.data.n_test > 0)
    => (/\ call.returned
        /\ Len(call.ret.test_error) = Len(fit.executed)
        /\ \A j \in 1..Len(call.ret.test_error) :
             call.ret.test_error[j][1] = j - 1)

\* C19: with validation samples the Report of a fit call holds one
\* validation-loss entry, and with a metric one validation-metric entry,
\* for every epoch that has a training-loss entry, under the epoch's index;
\* without validation samples it holds no validation entry.
C19_ValidationEveryEpoch ==
    "report" \in DOMAIN fit
    => LET report == fit.report
           k == Len(report.training_error)
       IN IF fit.data.n_validation > 0
          THEN /\ Len(report.validation_error) = k
               /\ \A j \in 1..k : report.validation_error[j][1] = j - 1
               /\ Len(report.validation_accuracy)
                     = (IF nn.metric # "" THEN k ELSE 0)
               /\ \A j \in 1..Len(report.validation_accuracy) :
                     report.validation_accuracy[j][1] = j - 1
          ELSE /\ report.validation_error = <<>>
               /\ report.validation_accuracy = <<>>

\* a returned fit of two epochs with validation samples and a metric
C19_Witness ==
    /\ call.op = "fit"
    /\ call.returned
    /\ fit.data.n_validation > 0
    /\ nn.metric # ""
    /\ Len(fit.executed) >= 2
    /\ Len(call.ret.validation_error) = 2
    /\ Len(call.ret.validation_accuracy) = 2

\* C20: the batch ratios of the backpropagation passes of one epoch,
\* batch_size / total_samples each, sum to 1.
C20_BatchRatiosSumToOne ==
    pc = "fit"
    => fit.num_window * fit.batch_total_samples_ratio[1]
         = fit.batch_total_samples_ratio[2]

\* C21: fit of a network of optimizer "SGD" sets the batch size to the
\* number of training samples, whatever the batch size was before, so that
\* an epoch runs one backpropagation pass, on a window of every training
\* sample.
C21_SGDFullBatch ==
    [][(pc = "ready" /\ pc' = "fit" /\ nn.optimizer = "SGD")
       => (/\ nn'.batch_size = fit'.total_samples
           /\ fit'.num_window = 1
           /\ window_size(fit'.total_samples, nn'.batch_size, 0)
                = fit'.total_samples)]_vars

\* an epoch was run by a fit of an SGD network on the largest training set
C21_Witness ==
    /\ pc = "fit"
    /\ nn.optimizer = "SGD"
    /\ fit.total_samples = MaxSamples
    /\ nn.batch_size = MaxSamples
    /\ Len(fit.executed) >= 1

====
